---- MODULE Spec2Model ----
(***************************************************************************)
(* Playback engine and frame compositor of the F1 LED circuit simulation   *)
(* (src/src/main.rs): PlotApp, its START / STOP buttons, update_race, and  *)
(* the per-frame construction of led_colors and of the rectangles drawn.   *)
(*                                                                         *)
(* Time is an integer number of milliseconds.  A coordinate (an f64 of the *)
(* source) is an integer number of sub-quanta: one quantum is              *)
(* 1/scale_factor of a track unit, the resolution of scale_f64, and a      *)
(* quantum is Sub sub-quanta, so that scale_f64 really truncates.          *)
(***************************************************************************)
EXTENDS Integers, Sequences, FiniteSets, TLC

VARIABLES
    coordinates,       \* PlotApp.coordinates: sequence of [x_led, y_led]
    run_race_data,     \* PlotApp.run_race_data: sequence of RunRace records
    colors,            \* PlotApp.colors: function driver_number -> colour
    start_datetime,    \* PlotApp.start_datetime
    race_started,      \* PlotApp.race_started
    current_index,     \* PlotApp.current_index (0-based, as in the source)
    next_update_time,  \* PlotApp.next_update_time
    now,               \* the wall clock, as last read by Utc::now()
    pc,                \* position inside App::update: "tick", "buttons", "draw"
    op,                \* the step of App::update taken last
    frame,             \* the rectangles handed to the painter by the last frame
    hist               \* times of the update_race calls since the last START

vars == <<coordinates, run_race_data, colors, start_datetime, race_started,
          current_index, next_update_time, now, pc, op, frame, hist>>

(***************************************************************************)
(* Bounds of the model.                                                    *)
(***************************************************************************)
MaxLen == 2        \* longest event log
MaxTime == 5       \* last clock value of Spec
MaxStep == 2       \* longest time between two clock reads in Spec
MaxCursor == 4     \* update_race is not followed beyond this current_index
ScMaxTime == 400   \* last clock value of SpecScenario

(***************************************************************************)
(* Units.                                                                  *)
(***************************************************************************)
Sub == 2
scale_factor == 1000000
TrackUnit == Sub * scale_factor

Min(a, b) == IF a <= b THEN a ELSE b

(***************************************************************************)
(* Colours (egui::Color32), as RGB triples.                                *)
(***************************************************************************)
WHITE == <<255, 255, 255>>
BLACK == <<0, 0, 0>>

\* the table built by main
MainColors ==
    (1 :> <<30, 65, 255>>) @@ (2 :> <<0, 82, 255>>) @@ (4 :> <<255, 135, 0>>) @@
    (10 :> <<2, 144, 240>>) @@ (11 :> <<30, 65, 255>>) @@ (14 :> <<0, 110, 120>>) @@
    (16 :> <<220, 0, 0>>) @@ (18 :> <<0, 110, 120>>) @@ (20 :> <<160, 207, 205>>) @@
    (22 :> <<60, 130, 200>>) @@ (23 :> <<0, 82, 255>>) @@ (24 :> <<165, 160, 155>>) @@
    (27 :> <<160, 207, 205>>) @@ (31 :> <<2, 144, 240>>) @@ (40 :> <<60, 130, 200>>) @@
    (44 :> <<0, 210, 190>>) @@ (55 :> <<220, 0, 0>>) @@ (63 :> <<0, 210, 190>>) @@
    (77 :> <<165, 160, 155>>) @@ (81 :> <<255, 135, 0>>)

\* a table handed to PlotApp::new that gives entities 5 and 7 colours of their own
ScenarioColors == (5 :> <<220, 0, 0>>) @@ (7 :> <<0, 210, 190>>)

(***************************************************************************)
(* Inputs of PlotApp::new.                                                 *)
(***************************************************************************)
LedCoordinate(x, y) == [x_led |-> x, y_led |-> y]

RunRace(d, n, x, y, td) ==
    [date |-> d, driver_number |-> n, x_led |-> x, y_led |-> y, time_delta |-> td]

\* the events a log of Spec is made of: a mapped and an unmapped driver, a
\* position between two quanta, a zero delay, a position off the grid, and
\* dates that do not follow the order of the log
EventPool ==
    { RunRace(3, 1, 0, 0, 1),
      RunRace(2, 5, Sub - 1, 0, 2),
      RunRace(1, 4, 0, Sub, 0),
      RunRace(1, 1, 2 * Sub, 2 * Sub, 1) }

RECURSIVE SeqsUpTo(_, _)
SeqsUpTo(S, n) ==
    IF n = 0 THEN { <<>> }
    ELSE LET shorter == SeqsUpTo(S, n - 1)
         IN  shorter \cup { Append(s, e) : s \in { t \in shorter : Len(t) = n - 1 }, e \in S }

EventLogs == SeqsUpTo(EventPool, MaxLen)

\* layouts: an L of three points, and a column (all points share one x)
Grids ==
    { << LedCoordinate(0, 0), LedCoordinate(Sub, 0), LedCoordinate(0, Sub) >>,
      << LedCoordinate(0, 0), LedCoordinate(0, Sub) >> }

ColorTables == { MainColors, ScenarioColors }

\* the scenario of the specification's section 8, in track units
ScenarioGrid ==
    << LedCoordinate(0, 0), LedCoordinate(TrackUnit, 0), LedCoordinate(0, TrackUnit) >>

ScenarioLog == << RunRace(1, 5, 0, 0, 100), RunRace(2, 7, 0, 0, 50) >>

(***************************************************************************)
(* PlotApp                                                                 *)
(***************************************************************************)
\* the fields of PlotApp that the playback methods read and write
self ==
    [ run_race_data    |-> run_race_data,
      start_datetime   |-> start_datetime,
      race_started     |-> race_started,
      current_index    |-> current_index,
      next_update_time |-> next_update_time ]

\* the loop of calculate_next_update_time: the sum of time_delta over
\* run_race_data.iter().take(n)
RECURSIVE total_time_delta(_, _)
total_time_delta(data, n) ==
    IF n = 0 \/ Len(data) = 0 THEN 0
    ELSE LET m == Min(n, Len(data))
         IN  total_time_delta(data, m - 1) + data[m].time_delta

\* mutant: the prefix sum stops one event short (take(current_index))
calculate_next_update_time_short(s) ==
    IF s.current_index < Len(s.run_race_data)
    THEN [s EXCEPT !.next_update_time =
                       s.start_datetime + total_time_delta(s.run_race_data, s.current_index)]
    ELSE s

calculate_next_update_time(s) ==
    IF s.current_index < Len(s.run_race_data)
    THEN [s EXCEPT !.next_update_time =
                       s.start_datetime + total_time_delta(s.run_race_data, s.current_index + 1)]
    ELSE s

\* PlotApp::new; t1 and t2 are the two readings of Utc::now() (start_datetime,
\* then next_update_time), t1 <= t2: the clock is taken to be monotonic
new(data, t1, t2) ==
    calculate_next_update_time(
        [ run_race_data    |-> data,
          start_datetime   |-> t1,
          race_started     |-> FALSE,
          current_index    |-> 0,
          next_update_time |-> t2 ])

\* mutant: reset without the call of calculate_next_update_time
reset_no_recalc(s, t) ==
    [s EXCEPT !.start_datetime = t, !.race_started = FALSE, !.current_index = 0]

\* mutant: STOP as a pause, the cursor is kept
reset_keeps_index(s, t) ==
    calculate_next_update_time([s EXCEPT !.start_datetime = t, !.race_started = FALSE])

reset(s, t) ==
    calculate_next_update_time(
        [s EXCEPT !.start_datetime = t, !.race_started = FALSE, !.current_index = 0])

\* mutant: START that keeps the cursor where it is
start_keeps_index(s, t) ==
    calculate_next_update_time([s EXCEPT !.race_started = TRUE, !.start_datetime = t])

\* the body of the START button
start(s, t) ==
    calculate_next_update_time(
        [s EXCEPT !.race_started = TRUE, !.start_datetime = t, !.current_index = 0])

\* mutant: catch up, advancing while the deadline is due
RECURSIVE update_race_catch_up(_, _)
update_race_catch_up(s, current_time) ==
    IF s.race_started /\ current_time >= s.next_update_time
    THEN LET s1 == [s EXCEPT !.current_index = @ + 1]
         IN  IF s1.current_index < Len(s1.run_race_data)
             THEN update_race_catch_up(calculate_next_update_time(s1), current_time)
             ELSE s1
    ELSE s

\* mutant: playback loops, the cursor wraps to 0 past the end of the log
update_race_looping(s, current_time) ==
    IF s.race_started /\ current_time >= s.next_update_time
    THEN calculate_next_update_time(
             [s EXCEPT !.current_index = (@ + 1) % (Len(s.run_race_data) + 1)])
    ELSE s

\* mutant: the race_started test is missing
update_race_unguarded(s, current_time) ==
    IF current_time >= s.next_update_time
    THEN LET s1 == [s EXCEPT !.current_index = @ + 1]
         IN  IF s1.current_index < Len(s1.run_race_data)
             THEN calculate_next_update_time(s1)
             ELSE s1
    ELSE s

\* mutant: playback stops by itself on the tick after the end of the log
update_race_auto_stop(s, current_time) ==
    IF s.race_started /\ current_time >= s.next_update_time
    THEN IF s.current_index >= Len(s.run_race_data)
         THEN [s EXCEPT !.race_started = FALSE]
         ELSE LET s1 == [s EXCEPT !.current_index = @ + 1]
              IN  IF s1.current_index < Len(s1.run_race_data)
                  THEN calculate_next_update_time(s1)
                  ELSE s1
    ELSE s

\* mutant: the cursor stops at the last event instead of past it
update_race_stops_short(s, current_time) ==
    IF s.race_started /\ current_time >= s.next_update_time
          /\ s.current_index + 1 < Len(s.run_race_data)
    THEN calculate_next_update_time([s EXCEPT !.current_index = @ + 1])
    ELSE s

\* mutant: an advance restarts the clock of the race at the time of the tick
update_race_rebases(s, current_time) ==
    IF s.race_started /\ current_time >= s.next_update_time
    THEN LET s1 == [s EXCEPT !.current_index = @ + 1, !.start_datetime = current_time]
         IN  IF s1.current_index < Len(s1.run_race_data)
             THEN [s1 EXCEPT !.next_update_time =
                      current_time + s1.run_race_data[s1.current_index + 1].time_delta]
             ELSE s1
    ELSE s

\* mutant: frame-count-driven playback, one event per call whatever the time
update_race_every_frame(s, current_time) ==
    IF s.race_started
    THEN LET s1 == [s EXCEPT !.current_index = @ + 1]
         IN  IF s1.current_index < Len(s1.run_race_data)
             THEN calculate_next_update_time(s1)
             ELSE s1
    ELSE s

update_race(s, current_time) ==
    IF s.race_started
    THEN IF current_time >= s.next_update_time
         THEN LET s1 == [s EXCEPT !.current_index = @ + 1]
              IN  IF s1.current_index < Len(s1.run_race_data)
                  THEN calculate_next_update_time(s1)
                  ELSE s1
         ELSE s
    ELSE s


(***************************************************************************)
(* Frame compositor: the CentralPanel closure of App::update               *)
(***************************************************************************)
\* `as i64`: truncation toward zero
Trunc(n, d) == IF n >= 0 THEN n \div d ELSE -((-n) \div d)

\* (value * scale as f64) as i64.  value is in sub-quanta, that is in
\* 1/TrackUnit of a track unit, so value * scale is value / (TrackUnit / scale)
scale_f64(value, scale) == Trunc(value, TrackUnit \div scale)

coord_key(run_data) ==
    << scale_f64(run_data.x_led, scale_factor), scale_f64(run_data.y_led, scale_factor) >>

\* mutant: an unmapped driver is given the base colour
color_of_black_fallback(table, driver_number) ==
    IF driver_number \in DOMAIN table THEN table[driver_number] ELSE BLACK

\* self.colors.get(&driver_number).copied().unwrap_or(Color32::WHITE)
color_of(table, driver_number) ==
    IF driver_number \in DOMAIN table THEN table[driver_number] ELSE WHITE

EmptyMap == [k \in {} |-> WHITE]

\* HashMap::insert
insert(map, key, value) ==
    [k \in DOMAIN map \cup {key} |-> IF k = key THEN value ELSE map[k]]

\* mutant: the first event at a coordinate keeps it (entry().or_insert())
RECURSIVE led_colors_first_wins(_, _, _)
led_colors_first_wins(data, table, n) ==
    IF n = 0 \/ Len(data) = 0 THEN EmptyMap
    ELSE LET m == Min(n, Len(data))
             prev == led_colors_first_wins(data, table, m - 1)
             k == coord_key(data[m])
         IN  IF k \in DOMAIN prev THEN prev
             ELSE insert(prev, k, color_of(table, data[m].driver_number))

\* the loop over run_race_data.iter().take(n) that fills led_colors
RECURSIVE led_colors(_, _, _)
led_colors(data, table, n) ==
    IF n = 0 \/ Len(data) = 0 THEN EmptyMap
    ELSE LET m == Min(n, Len(data))
         IN  insert(led_colors(data, table, m - 1), coord_key(data[m]),
                    color_of(table, data[m].driver_number))

\* ui.available_width() and ui.available_height(), in pixels
available_width == 200
available_height == 100

RECURSIVE FoldMin(_, _)
FoldMin(vals, i) ==
    IF i = 1 THEN vals[1] ELSE Min(FoldMin(vals, i - 1), vals[i])

RECURSIVE FoldMax(_, _)
FoldMax(vals, i) ==
    IF i = 1 THEN vals[1]
    ELSE LET r == FoldMax(vals, i - 1) IN IF vals[i] >= r THEN vals[i] ELSE r

\* the two folds over self.coordinates (of a layout that is not empty)
bounding_box(coords) ==
    LET xs == [i \in 1..Len(coords) |-> coords[i].x_led]
        ys == [i \in 1..Len(coords) |-> coords[i].y_led]
    IN  [ min_x |-> FoldMin(xs, Len(xs)), max_x |-> FoldMax(xs, Len(xs)),
          min_y |-> FoldMin(ys, Len(ys)), max_y |-> FoldMax(ys, Len(ys)) ]

\* an f32 pixel coordinate: a fraction num/den, or the NaN or the infinity
\* that IEEE 754 division by a zero extent yields
Num(n, d) == [kind |-> "num", num |-> n, den |-> d]
NaN == [kind |-> "nan", num |-> 0, den |-> 0]
Inf == [kind |-> "inf", num |-> 0, den |-> 0]
NegInf == [kind |-> "-inf", num |-> 0, den |-> 0]

\* ((v - min_x) / width) as f32 * ui.available_width()
norm_x(v, min_x, width) ==
    IF width = 0
    THEN IF v = min_x THEN NaN ELSE IF v > min_x THEN Inf ELSE NegInf
    ELSE Num((v - min_x) * available_width, width)

\* ui.available_height() - (((v - min_y) / height) as f32 * ui.available_height())
norm_y(v, min_y, height) ==
    IF height = 0
    THEN IF v = min_y THEN NaN ELSE IF v > min_y THEN NegInf ELSE Inf
    ELSE Num(available_height * height - (v - min_y) * available_height, height)

Rect(x, y, c) == [x |-> x, y |-> y, color |-> c]

\* the rectangles of one frame: first the loop over self.coordinates, in
\* order, then the loop over led_colors, whose order the HashMap decides
draw(coords, data, table, index) ==
    LET bb == bounding_box(coords)
        width == bb.max_x - bb.min_x
        height == bb.max_y - bb.min_y
        leds == led_colors(data, table, index)
    IN  [ base |-> [i \in 1..Len(coords) |->
                      Rect(norm_x(coords[i].x_led, bb.min_x, width),
                           norm_y(coords[i].y_led, bb.min_y, height), BLACK)],
          lit  |-> { Rect(norm_x(k[1] * (TrackUnit \div scale_factor), bb.min_x, width),
                          norm_y(k[2] * (TrackUnit \div scale_factor), bb.min_y, height),
                          leds[k]) : k \in DOMAIN leds } ]

NoFrame == [base |-> <<>>, lit |-> {}]

(***************************************************************************)
(* App::update, one frame: update_race, the two buttons, the drawing.      *)
(***************************************************************************)
NoHist == [valid |-> FALSE, ticks |-> <<>>]

\* the update_race calls since the last START, while nothing else was done
HistTick(h, t) ==
    IF h.valid /\ Len(h.ticks) < 2 THEN [h EXCEPT !.ticks = Append(@, t)] ELSE NoHist

Store(s) ==
    /\ start_datetime' = s.start_datetime
    /\ race_started' = s.race_started
    /\ current_index' = s.current_index
    /\ next_update_time' = s.next_update_time
    /\ UNCHANGED <<coordinates, run_race_data, colors>>

TickAt(t) ==
    /\ pc = "tick"
    /\ update_race(self, t).current_index <= MaxCursor
    /\ now' = t
    /\ Store(update_race(self, t))
    /\ pc' = "buttons"
    /\ op' = "tick"
    /\ UNCHANGED frame

ClickStartAt(t) ==
    /\ pc = "buttons"
    /\ now' = t
    /\ Store(start(self, t))
    /\ pc' = "draw"
    /\ op' = "START"
    /\ UNCHANGED frame

ClickStopAt(t) ==
    /\ pc = "buttons"
    /\ now' = t
    /\ Store(reset(self, t))
    /\ pc' = "draw"
    /\ op' = "STOP"
    /\ UNCHANGED frame

NoClickStep ==
    /\ pc = "buttons"
    /\ pc' = "draw"
    /\ op' = "none"
    /\ UNCHANGED <<coordinates, run_race_data, colors, start_datetime, race_started,
                   current_index, next_update_time, now, frame>>

\* mutant: led_colors kept across frames instead of being rebuilt
DrawStep_accumulating ==
    /\ pc = "draw"
    /\ frame' = [ draw(coordinates, run_race_data, colors, current_index)
                    EXCEPT !.lit = @ \cup frame.lit ]
    /\ pc' = "tick"
    /\ op' = "draw"
    /\ UNCHANGED <<coordinates, run_race_data, colors, start_datetime, race_started,
                   current_index, next_update_time, now>>

DrawStep ==
    /\ pc = "draw"
    /\ frame' = draw(coordinates, run_race_data, colors, current_index)
    /\ pc' = "tick"
    /\ op' = "draw"
    /\ UNCHANGED <<coordinates, run_race_data, colors, start_datetime, race_started,
                   current_index, next_update_time, now>>

Times == { t \in now .. now + MaxStep : t <= MaxTime }

InitApp(data, t1, t2) ==
    LET s == new(data, t1, t2)
    IN  /\ run_race_data = data
        /\ start_datetime = s.start_datetime
        /\ race_started = s.race_started
        /\ current_index = s.current_index
        /\ next_update_time = s.next_update_time
        /\ now = t2
        /\ pc = "tick"
        /\ op = "new"
        /\ frame = NoFrame
        /\ hist = NoHist

Init ==
    /\ coordinates \in Grids
    /\ colors \in ColorTables
    /\ \E data \in EventLogs, t2 \in 0..1 : InitApp(data, 0, t2)

Tick == \E t \in Times : TickAt(t) /\ UNCHANGED hist
ClickStart == \E t \in Times : ClickStartAt(t) /\ UNCHANGED hist
ClickStop == \E t \in Times : ClickStopAt(t) /\ UNCHANGED hist
NoClick == NoClickStep /\ UNCHANGED hist
Draw == DrawStep /\ UNCHANGED hist

Next == Tick \/ ClickStart \/ ClickStop \/ NoClick \/ Draw

Spec == Init /\ [][Next]_vars


(***************************************************************************)
(* The scenario of the specification's section 8: the L-shaped layout, the *)
(* log of two events at (0,0), and every pattern of START, STOP and tick   *)
(* times; hist records the ticks that follow a START.                      *)
(***************************************************************************)
ScSteps == { 0, 50, 99, 100, 149, 150 }

ScTimes == { t \in { now + d : d \in ScSteps } : t <= ScMaxTime }

ScInit ==
    /\ coordinates = ScenarioGrid
    /\ colors \in ColorTables
    /\ InitApp(ScenarioLog, 0, 0)

ScTick == \E t \in ScTimes : TickAt(t) /\ hist' = HistTick(hist, t)
ScClickStart == \E t \in ScTimes : ClickStartAt(t) /\ hist' = [valid |-> TRUE, ticks |-> <<>>]
ScClickStop == \E t \in ScTimes : ClickStopAt(t) /\ hist' = NoHist
ScNoClick == NoClickStep /\ UNCHANGED hist
ScDraw == DrawStep /\ UNCHANGED hist

ScNext == ScTick \/ ScClickStart \/ ScClickStop \/ ScNoClick \/ ScDraw

SpecScenario == ScInit /\ [][ScNext]_vars

(***************************************************************************)
(* Notions the properties are stated with.                                 *)
(***************************************************************************)
\* LitState: quantized coordinate -> colour shown, for the events consumed
LitState == led_colors(run_race_data, colors, current_index)

\* the events consumed at cursor n
Consumed(n) == 1 .. Min(n, Len(run_race_data))

\* the last consumed event at quantized coordinate k (0 when there is none)
LastAt(k, n) ==
    LET S == { i \in Consumed(n) : coord_key(run_race_data[i]) = k }
    IN  IF S = {} THEN 0 ELSE CHOOSE i \in S : \A j \in S : j <= i

\* the colour the table gives an entity, or the fallback colour
TableColor(entity) == IF entity \in DOMAIN colors THEN colors[entity] ELSE <<255, 255, 255>>

\* sum of delay_ms of the events 0..=c (1..c+1 here), written without the loop
RECURSIVE DelaySum(_)
DelaySum(c) == IF c < 0 THEN 0 ELSE DelaySum(c - 1) + run_race_data[c + 1].time_delta


(***************************************************************************)
(* C1: in every reachable state cursor <= len(EventLog), the empty log     *)
(* included; once the cursor is at the end a tick no longer advances it.   *)
(***************************************************************************)
C1_CursorWithinLog == current_index <= Len(run_race_data)

(***************************************************************************)
(* C2: whenever the cursor c is a valid index, next_deadline equals        *)
(* race_start_wallclock plus the sum of delay_ms of events[0..=c]; after   *)
(* construction, START, STOP and every tick.                               *)
(***************************************************************************)
C2_DeadlineIsPrefixSum ==
    current_index < Len(run_race_data)
        => next_update_time = start_datetime + DelaySum(current_index)

C2_Witness ==
    /\ op = "tick"
    /\ race_started
    /\ current_index = 1
    /\ Len(run_race_data) = 2
    /\ run_race_data[1].time_delta > 0
    /\ run_race_data[2].time_delta > 0
    /\ start_datetime > 0

(***************************************************************************)
(* C3: while Running, a tick before next_deadline leaves the cursor        *)
(* unchanged and a tick at or after it advances the cursor by exactly one, *)
(* however many deadlines have elapsed.                                    *)
(***************************************************************************)
C3_OneStepPerTick ==
    [][ (op' = "tick" /\ race_started)
          => IF now' < next_update_time
             THEN current_index' = current_index
             ELSE current_index' = current_index + 1 ]_vars

\* a tick has just advanced the cursor to 1 although the deadline of event 1
\* had elapsed as well
C3_Witness ==
    /\ op = "tick"
    /\ race_started
    /\ current_index = 1
    /\ Len(run_race_data) = 2
    /\ now >= next_update_time
    /\ run_race_data[1].time_delta > 0

(***************************************************************************)
(* C4: the cursor never decreases while Running unless the step is START   *)
(* or STOP; a tick never lowers it.                                        *)
(***************************************************************************)
C4_CursorMonotone ==
    [][ /\ (race_started /\ current_index' < current_index) => op' \in {"START", "STOP"}
        /\ op' = "tick" => current_index' >= current_index ]_vars

\* START pressed while the last frame showed lit points: the cursor went back
C4_Witness ==
    /\ op = "START"
    /\ current_index = 0
    /\ frame.lit # {}

(***************************************************************************)
(* C5: STOP leaves cursor = 0 and running = false, at any cursor value;    *)
(* every tick before the next START changes nothing, whatever the time.    *)
(***************************************************************************)
C5_ResetThenIdle ==
    [][ /\ op' = "STOP" => (current_index' = 0 /\ ~race_started')
        /\ (~race_started /\ op' = "tick")
             => UNCHANGED <<start_datetime, race_started, current_index,
                            next_update_time, run_race_data>> ]_vars

\* a tick after a STOP, at a time past the deadline
C5_Witness ==
    /\ op = "tick"
    /\ ~race_started
    /\ start_datetime > 0
    /\ Len(run_race_data) > 0
    /\ now > next_update_time
    /\ current_index = 0

(***************************************************************************)
(* C6: START, from Idle or Running at any cursor, leaves running = true,   *)
(* cursor = 0, race_start_wallclock = now and next_deadline = now + the    *)
(* delay of event 0 (when there is one); nothing is lit right after it.    *)
(***************************************************************************)
C6_StartRestarts ==
    op = "START" =>
        /\ race_started
        /\ current_index = 0
        /\ start_datetime = now
        /\ Len(run_race_data) > 0 => next_update_time = now + run_race_data[1].time_delta
        /\ DOMAIN LitState = {}

\* START pressed while a playback was showing lit points
C6_Witness ==
    /\ op = "START"
    /\ frame.lit # {}
    /\ now > 0
    /\ run_race_data[1].time_delta > 0

(***************************************************************************)
(* C7: once the cursor has reached the end of the log, every step but      *)
(* START and STOP keeps running = true and LitState equal to the           *)
(* composition of the whole log: no loop, no automatic stop.               *)
(***************************************************************************)
C7_HoldsAtEnd ==
    [][ (race_started /\ current_index >= Len(run_race_data) /\ op' \notin {"START", "STOP"})
          => /\ race_started'
             /\ current_index' >= Len(run_race_data')
             /\ led_colors(run_race_data', colors', current_index')
                    = led_colors(run_race_data, colors, Len(run_race_data))
             /\ op' = "draw" =>
                    frame' = draw(coordinates, run_race_data, colors, Len(run_race_data)) ]_vars

\* a tick taken when the cursor was already at the end
C7_Witness ==
    /\ op = "tick"
    /\ race_started
    /\ Len(run_race_data) = 2
    /\ current_index > Len(run_race_data)
    /\ DOMAIN LitState # {}

(***************************************************************************)
(* C8: for every log and cursor n, the colour at a quantized coordinate k  *)
(* is that of the highest-index event i < n whose quantized (x, y) is k,   *)
(* whatever the dates; events at index >= n contribute nothing and a       *)
(* coordinate without such an event is unlit.                              *)
(***************************************************************************)
C8_LastWriteWins ==
    \A n \in 0 .. MaxCursor :
        LET L == led_colors(run_race_data, colors, n)
        IN  /\ DOMAIN L = { coord_key(run_race_data[i]) : i \in Consumed(n) }
            /\ \A k \in DOMAIN L :
                   L[k] = TableColor(run_race_data[LastAt(k, n)].driver_number)

\* two consumed events at one quantized coordinate, of different colours,
\* the later one carrying the earlier date
C8_Witness ==
    /\ Len(run_race_data) = 2
    /\ current_index = 2
    /\ coord_key(run_race_data[1]) = coord_key(run_race_data[2])
    /\ run_race_data[1].x_led # run_race_data[2].x_led
    /\ TableColor(run_race_data[1].driver_number) # TableColor(run_race_data[2].driver_number)
    /\ run_race_data[2].date < run_race_data[1].date
    /\ op = "draw"

(***************************************************************************)
(* C9: in the scenario, after START followed by two ticks at least 150 ms  *)
(* apart, whenever they are taken, (0,0) shows entity 7's colour and       *)
(* (1,0) and (0,1) are unlit.                                              *)
(***************************************************************************)
TwoTicksAfterStart ==
    /\ hist.valid
    /\ Len(hist.ticks) = 2
    /\ hist.ticks[2] - hist.ticks[1] >= 150

ScenarioOutcome ==
    /\ <<0, 0>> \in DOMAIN LitState
    /\ LitState[<<0, 0>>] = TableColor(7)
    /\ <<scale_factor, 0>> \notin DOMAIN LitState
    /\ <<0, scale_factor>> \notin DOMAIN LitState

C9_Original == TwoTicksAfterStart => ScenarioOutcome

(***************************************************************************)
(* C9 as amended: the same, provided the first of the two ticks comes at   *)
(* least 100 ms (the delay of event 0) after START.                        *)
(***************************************************************************)
C9_Amended ==
    (TwoTicksAfterStart /\ hist.ticks[1] >= start_datetime + 100) => ScenarioOutcome

C9_Witness ==
    /\ TwoTicksAfterStart
    /\ hist.ticks[1] >= start_datetime + 100
    /\ colors = ScenarioColors
    /\ op = "draw"
    /\ current_index = 2

(***************************************************************************)
(* C10: in every frame each GridPoint gets a rectangle whose final colour  *)
(* is the base colour when the point is unlit and otherwise the table      *)
(* colour of the occupying entity, the fallback colour when the entity has *)
(* no entry.                                                               *)
(***************************************************************************)
PointKey(i) ==
    << scale_f64(coordinates[i].x_led, scale_factor),
       scale_f64(coordinates[i].y_led, scale_factor) >>

\* the colours the rectangles of the frame leave at the place of rectangle r:
\* those of the lit rectangles drawn there or, without any, the base colour.
\* Two rectangles are at one place when their position arguments are the
\* same values; in a layout of zero extent these are the NaN both loops
\* compute for the point.
FinalColours(r) ==
    LET over == { l \in frame.lit : l.x = r.x /\ l.y = r.y }
    IN  IF over # {} THEN { l.color : l \in over } ELSE { r.color }

ExpectedColour(i) ==
    LET e == LastAt(PointKey(i), current_index)
    IN  IF e = 0 THEN <<0, 0, 0>> ELSE TableColor(run_race_data[e].driver_number)

C10_RenderContract ==
    op = "draw" =>
        /\ Len(frame.base) = Len(coordinates)
        /\ \A i \in 1 .. Len(coordinates) :
               FinalColours(frame.base[i]) = { ExpectedColour(i) }

\* a frame with an unlit point and a point lit by an entity without entry
C10_Witness ==
    /\ op = "draw"
    /\ \E i \in 1 .. Len(coordinates) : LastAt(PointKey(i), current_index) = 0
    /\ \E i \in 1 .. Len(coordinates) :
           LET e == LastAt(PointKey(i), current_index)
           IN  e # 0 /\ run_race_data[e].driver_number \notin DOMAIN colors

(***************************************************************************)
(* C11: after STOP, next_deadline equals the time of the reset ("now"),    *)
(* as race_start_wallclock does.                                           *)
(***************************************************************************)
C11_Original ==
    op = "STOP" => (start_datetime = now /\ next_update_time = now)

(***************************************************************************)
(* C11 as amended: after STOP race_start_wallclock equals the time of the  *)
(* reset, and next_deadline equals that time plus the delay of event 0;    *)
(* with an empty log next_deadline is left as it was.                      *)
(***************************************************************************)
C11_Amended ==
    [][ op' = "STOP" =>
          /\ start_datetime' = now'
          /\ IF Len(run_race_data) > 0
             THEN next_update_time' = now' + run_race_data[1].time_delta
             ELSE next_update_time' = next_update_time ]_vars

\* a STOP, later than the construction, of a log whose event 0 has a delay
C11_Witness ==
    /\ op = "STOP"
    /\ now > 1
    /\ Len(run_race_data) > 0
    /\ run_race_data[1].time_delta > 0
    /\ next_update_time > now

(***************************************************************************)
(* C12: when the bounding box of the GridPoints has zero width or zero     *)
(* height, normalization divides by nothing that is zero and gives every   *)
(* point the same defined position on that axis, in every frame.           *)
(***************************************************************************)
ZeroWidth == bounding_box(coordinates).max_x = bounding_box(coordinates).min_x
ZeroHeight == bounding_box(coordinates).max_y = bounding_box(coordinates).min_y

C12_DegenerateFallback ==
    op = "draw" =>
        /\ ZeroWidth =>
               /\ \A i \in 1 .. Len(frame.base) : frame.base[i].x.kind = "num"
               /\ \A i, j \in 1 .. Len(frame.base) : frame.base[i].x = frame.base[j].x
        /\ ZeroHeight =>
               /\ \A i \in 1 .. Len(frame.base) : frame.base[i].y.kind = "num"
               /\ \A i, j \in 1 .. Len(frame.base) : frame.base[i].y = frame.base[j].y

(***************************************************************************)
(* C13: the engine starts Idle (running = false, cursor = 0), and in every *)
(* reachable state running = false implies cursor = 0, so that nothing is  *)
(* lit while the engine is Idle.                                           *)
(***************************************************************************)
C13_IdleAtZero ==
    /\ op = "new" => (~race_started /\ current_index = 0)
    /\ ~race_started => (current_index = 0 /\ DOMAIN LitState = {})

\* Idle again after a STOP pressed while the last frame showed lit points
C13_Witness ==
    /\ op = "STOP"
    /\ ~race_started
    /\ frame.lit # {}
    /\ Len(run_race_data) = 2

(***************************************************************************)
(* C14: compositing is idempotent: composed again from the same EventLog,  *)
(* cursor and ColorTable, with no playback operation in between, the frame *)
(* is identical; and compositing changes no field of PlaybackState.        *)
(***************************************************************************)
C14_CompositingIdempotent ==
    [][ op' = "draw" =>
          /\ UNCHANGED <<run_race_data, colors, coordinates, start_datetime,
                         race_started, current_index, next_update_time>>
          /\ frame' = draw(coordinates', run_race_data', colors', current_index')
          /\ frame = draw(coordinates, run_race_data, colors, current_index)
                 => frame' = frame ]_vars

\* a frame with lit points composed while the playback waits, past the
\* deadline of event 0, for the deadline of event 1
C14_Witness ==
    /\ op = "draw"
    /\ race_started
    /\ frame.lit # {}
    /\ current_index = 1
    /\ now < next_update_time
    /\ now > start_datetime + run_race_data[1].time_delta

(***************************************************************************)
(* C15: a tick never changes running or race_start_wallclock; when the     *)
(* engine is not running, or the time is before next_deadline, it leaves   *)
(* cursor and next_deadline unchanged as well; and when it moves the       *)
(* cursor to len(EventLog), next_deadline is left unchanged.               *)
(***************************************************************************)
C15_TickFrame ==
    [][ op' = "tick" =>
          /\ UNCHANGED <<race_started, start_datetime, run_race_data>>
          /\ (~race_started \/ now' < next_update_time)
                 => UNCHANGED <<current_index, next_update_time>>
          /\ (current_index' # current_index /\ current_index' = Len(run_race_data))
                 => UNCHANGED next_update_time ]_vars

\* a tick has just moved the cursor to the end of a log of two events
C15_Witness ==
    /\ op = "tick"
    /\ race_started
    /\ Len(run_race_data) = 2
    /\ current_index = 2
    /\ start_datetime > 0
    /\ next_update_time =
           start_datetime + run_race_data[1].time_delta + run_race_data[2].time_delta

(***************************************************************************)
(* C16: a lit colour is emitted only at the coordinate of a GridPoint: a   *)
(* consumed event whose quantized (x, y) matches no GridPoint produces no  *)
(* lit rectangle, so the lit positions of every frame are among those of   *)
(* the GridPoints.                                                         *)
(***************************************************************************)
C16_LitOnlyOnGrid ==
    op = "draw" =>
        \A l \in frame.lit :
            \E i \in 1 .. Len(frame.base) :
                frame.base[i].x = l.x /\ frame.base[i].y = l.y

(***************************************************************************)
(* C17: no event is shown early: whenever event i contributes to LitState  *)
(* (i < cursor, i < len(EventLog)) the current time is at least            *)
(* race_start_wallclock plus the sum of delay_ms of events[0..=i].         *)
(***************************************************************************)
C17_NeverEarly ==
    \A i \in 0 .. Min(current_index, Len(run_race_data)) - 1 :
        now >= start_datetime + DelaySum(i)

\* both events of a log shown, after a START later than the construction and
\* ticks, some of them before a deadline
C17_Witness ==
    /\ op = "draw"
    /\ race_started
    /\ Len(run_race_data) = 2
    /\ current_index >= 2
    /\ start_datetime > 0
    /\ run_race_data[1].time_delta + run_race_data[2].time_delta >= 3
    /\ Cardinality(DOMAIN LitState) = 2

(***************************************************************************)
(* Playback under fairness: the frame loop goes on (ctx.request_repaint()  *)
(* at the end of App::update), and the clock goes on: again and again a    *)
(* tick reads a later time.  START is taken only while the bounded clock   *)
(* can still reach the last deadline of the log.                           *)
(***************************************************************************)
LiveInit ==
    /\ coordinates = << LedCoordinate(0, 0), LedCoordinate(Sub, 0), LedCoordinate(0, Sub) >>
    /\ colors = MainColors
    /\ \E data \in EventLogs : InitApp(data, 0, 0)

LiveClickStart ==
    \E t \in Times :
        /\ t + total_time_delta(run_race_data, Len(run_race_data)) <= MaxTime
        /\ ClickStartAt(t)
        /\ UNCHANGED hist

TickLater == \E t \in Times : t > now /\ TickAt(t) /\ UNCHANGED hist

LiveNext == Tick \/ LiveClickStart \/ ClickStop \/ NoClick \/ Draw

SpecLive ==
    /\ LiveInit
    /\ [][LiveNext]_vars
    /\ WF_vars(Tick)
    /\ WF_vars(LiveClickStart \/ ClickStop \/ NoClick)
    /\ WF_vars(Draw)
    /\ SF_vars(TickLater)

(***************************************************************************)
(* C18: after START, if time keeps advancing, tick keeps being called and  *)
(* neither START nor STOP is pressed again, then eventually the cursor     *)
(* reaches len(EventLog) and every event of the log contributes to         *)
(* LitState.                                                               *)
(***************************************************************************)
C18_PlaybackCompletes ==
    <>[][op' \notin {"START", "STOP"}]_vars
        => <>[](race_started =>
                  /\ current_index >= Len(run_race_data)
                  /\ LitState = led_colors(run_race_data, colors, Len(run_race_data))
                  /\ DOMAIN LitState = { coord_key(run_race_data[i]) : i \in 1 .. Len(run_race_data) })

\* the playback of a log of two events, started later than the construction,
\* has just reached the end
C18_Witness ==
    /\ op = "tick"
    /\ race_started
    /\ start_datetime > 0
    /\ Len(run_race_data) = MaxLen
    /\ current_index = Len(run_race_data)
    /\ DOMAIN LitState = { coord_key(run_race_data[i]) : i \in 1 .. Len(run_race_data) }
    /\ total_time_delta(run_race_data, Len(run_race_data)) > 0

====
